---- MODULE Spec2Model ----
(***************************************************************************)
(* Model of the useUserProfile hook (src/components/UserProfile/           *)
(* useUserProfile.ts): the state held by useState, the fetch and PATCH     *)
(* requests issued through the global fetch, and the continuations that    *)
(* run when those requests settle.                                         *)
(*                                                                         *)
(* React applies the functional updaters passed to setState one after the  *)
(* other, each on the result of the previous one, and the hook is          *)
(* re-rendered before the next handler runs (the tests drive it through    *)
(* act/waitFor), so the closures of the callbacks see the committed state  *)
(* and the current userId.  An await suspends the callback: the request is *)
(* in flight from the fetch call until its continuation runs.              *)
(***************************************************************************)
EXTENDS Naturals, Sequences, FiniteSets

\* ----- bounds -----------------------------------------------------------
\* total number of calls of the global fetch (GET and PATCH) in one run
MaxCalls == 3

\* ----- values -----------------------------------------------------------
\* identities the consumer binds the hook to (the userId prop)
Ids == {"user-123", "user-456"}

\* values of the one display field kept in the model
Names == {"John", "Jane"}

\* a User, reduced to its identity and one display field
Users == [id : Ids, firstName : Names]

\* user: null
NullUser == [id |-> "null", firstName |-> "null"]

\* error: null
NullError == "null"

\* UpdateUserPayload, reduced to the one display field
Payloads == [firstName : {"Jane"}]

\* statusText of a response with ok = false
StatusTexts == {"Not Found"}

\* message of an Error the fetch promise is rejected with
RejectMessages == {"Network error"}

\* what a call of fetch fails with: a response with ok = false and a
\* statusText, a rejection with an Error (text: its message, possibly
\* empty), or a rejection with a value that is not an instance of Error
\* (text: the message that value carries, empty when it carries none)
Failures ==
    [kind : {"status"}, text : StatusTexts]
        \cup [kind : {"error"}, text : RejectMessages \cup {""}]
        \cup [kind : {"other"}, text : RejectMessages \cup {""}]

\* no failure
NoFailure == [kind |-> "none", text |-> ""]

\* what onUpdate throws: an Error (text: its message) or a value that is
\* not an instance of Error
Thrown == [kind : {"error"}, text : RejectMessages] \cup [kind : {"other"}, text : {""}]

\* the options carry no onUpdate: onUpdate?.(updatedUser) makes no call
NoOnUpdate == [kind |-> "absent", text |-> ""]

\* what onUpdate?.(updatedUser) does: nothing when no onUpdate is given,
\* else the call returns (no failure) or throws
OnUpdates == {NoOnUpdate, NoFailure} \cup Thrown

\* useState initial value
InitialState ==
    [user |-> NullUser, isLoading |-> TRUE, error |-> NullError, isEditing |-> FALSE]

VARIABLES
    userId,     \* the userId prop of the latest render
    state,      \* the UserProfileState held by useState
    calls,      \* the calls of the global fetch, in the order they were made
    promises,   \* for each call, whether it is pending and what it settled with
    notified,   \* the calls of onUpdate, in order: the argument of each
    mounted,    \* whether the mount effect has run
    last,       \* the last operation: its name, its call and the state before it
    trip        \* progress through bind, fetch success, setEditing(true), setEditing(false)

vars == <<userId, state, calls, promises, notified, mounted, last, trip>>

\* ----- setState updaters ------------------------------------------------
FetchStartKeepsError(s) == [s EXCEPT !.isLoading = TRUE]

\* fetchUser: setState((prev) => ({ ...prev, isLoading: true, error: null }))
FetchStart(s) == [s EXCEPT !.isLoading = TRUE, !.error = NullError]

FetchOkDropsUser(s, user) == [s EXCEPT !.isLoading = FALSE]

FetchOkKeepsLoading(s, user) == [s EXCEPT !.user = user]

\* fetchUser: setState((prev) => ({ ...prev, user, isLoading: false }))
FetchOk(s, user) == [s EXCEPT !.user = user, !.isLoading = FALSE]

FetchCatchKeepsLoading(s, message) == [s EXCEPT !.error = message]

\* fetchUser catch: setState((prev) => ({ ...prev, error: message, isLoading: false }))
FetchCatch(s, message) == [s EXCEPT !.error = message, !.isLoading = FALSE]

UpdateGuardMissing(s) == TRUE

\* updateUser: if (!state.user) return;
UpdateGuard(s) == s.user # NullUser

\* updateUser: setState((prev) => ({ ...prev, isLoading: true, error: null }))
UpdateStart(s) == [s EXCEPT !.isLoading = TRUE, !.error = NullError]

UpdateOkMerge(s, updatedUser, payload) ==
    [s EXCEPT !.user = [s.user EXCEPT !.firstName = payload.firstName],
              !.isLoading = FALSE, !.isEditing = FALSE]

\* updateUser: setState((prev) => ({ ...prev, user: updatedUser,
\*                                   isLoading: false, isEditing: false }))
UpdateOk(s, updatedUser, payload) ==
    [s EXCEPT !.user = updatedUser, !.isLoading = FALSE, !.isEditing = FALSE]

UpdateCatchExitsEdit(s, message) ==
    [s EXCEPT !.error = message, !.isLoading = FALSE, !.isEditing = FALSE]

\* updateUser catch: setState((prev) => ({ ...prev, error: message, isLoading: false }))
UpdateCatch(s, message) == [s EXCEPT !.error = message, !.isLoading = FALSE]

SetEditingClearsError(s, isEditing) == [s EXCEPT !.isEditing = isEditing, !.error = NullError]

\* setEditing: setState((prev) => ({ ...prev, isEditing }))
SetEditingState(s, isEditing) == [s EXCEPT !.isEditing = isEditing]

ClearErrorResetsUser(s) == [s EXCEPT !.error = NullError, !.user = NullUser]

\* clearError: setState((prev) => ({ ...prev, error: null }))
ClearErrorState(s) == [s EXCEPT !.error = NullError]

\* onUpdate?.(updatedUser), with an onUpdate given
Notify(n, updatedUser) == Append(n, updatedUser)

\* ----- error messages ---------------------------------------------------
\* fetchUser: the Error thrown for a response with ok = false, and
\* err instanceof Error ? err.message : 'Failed to fetch user'
FetchErrorMessageOrFallback(f) ==
    IF f.kind = "status" THEN "Failed to fetch user: " \o f.text
    ELSE IF f.text # "" THEN f.text
    ELSE "Failed to fetch user"

FetchErrorMessage(f) ==
    IF f.kind = "status" THEN "Failed to fetch user: " \o f.text
    ELSE IF f.kind = "error" THEN f.text
    ELSE "Failed to fetch user"

\* updateUser: the same derivation with 'Failed to update user'
UpdateErrorMessage(f) ==
    IF f.kind = "status" THEN "Failed to update user: " \o f.text
    ELSE IF f.kind = "error" THEN f.text
    ELSE "Failed to update user"

\* updateUser after a response with ok = true: the setState of the success,
\* then onUpdate?.(updatedUser) inside the try; when onUpdate throws the
\* catch block runs its setState on top of the first one
UpdateSettled(s, updatedUser, payload, cb) ==
    IF cb \in Thrown
    THEN UpdateCatch(UpdateOk(s, updatedUser, payload), UpdateErrorMessage(cb))
    ELSE UpdateOk(s, updatedUser, payload)

\* ----- requests ---------------------------------------------------------
GetCallStaleId(id) == [method |-> "GET", id |-> userId, body |-> [firstName |-> "null"]]

\* fetch(`/api/users/${userId}`)
GetCall(id) == [method |-> "GET", id |-> id, body |-> [firstName |-> "null"]]

\* fetch(`/api/users/${userId}`, { method: 'PATCH', ..., body: JSON.stringify(payload) })
PatchCall(id, payload) == [method |-> "PATCH", id |-> id, body |-> payload]

\* the entities the remote service answers a call with: those of the
\* identity in the URL of the call
Answers(i) == {u \in Users : u.id = calls[i].id}

\* ----- bookkeeping of the last operation ---------------------------------
NoTrip == [phase |-> "none", call |-> 0, snap |-> InitialState]

\* the operation op on call i (0: no call), which received the entity user
\* or the failure f and published the failure message (null: neither);
\* held: for the failure of a PATCH, the entity held when updateUser made
\* the call
Last(op, i, user, f, message) ==
    [op |-> op, call |-> i, prev |-> state, ncalls |-> Len(calls),
     user |-> user, failure |-> f, error |-> message,
     held |-> IF op = "updateFail" THEN promises[i].held ELSE NullUser]

\* a call is made and awaited; alone: no other call is pending with it
Pending == [ev |-> "pending", rebound |-> FALSE, alone |-> TRUE, held |-> NullUser]

\* the call made last is a PATCH made by updateUser while user was held
Holding(awaited, user) == [awaited EXCEPT ![Len(awaited)].held = user]

\* another call is pending together with the call
Overlapped(p) == IF p.ev = "pending" THEN [p EXCEPT !.alone = FALSE] ELSE p

\* the awaited calls after one more call is made, before being those made
\* so far
Awaited(before) ==
    IF \E i \in 1..Len(before) : before[i].ev = "pending"
    THEN Append([i \in 1..Len(before) |-> Overlapped(before[i])], Overlapped(Pending))
    ELSE Append(before, Pending)

\* the awaited call is answered with ok = true
Fulfilled(p) == [p EXCEPT !.ev = "ok", !.held = NullUser]

\* the awaited call fails
Rejected(p) == [p EXCEPT !.ev = "fail", !.held = NullUser]

\* a render with another userId while the call is pending
Rebound(p) == IF p.ev = "pending" THEN [p EXCEPT !.rebound = TRUE] ELSE p

\* the calls whose continuation has not run yet
inflight == {i \in 1..Len(promises) : promises[i].ev = "pending"}

\* call i has been answered
Settled(i) == i \in 1..Len(promises) /\ promises[i].ev # "pending"

\* the sequence bind, success of the bind's fetch, setEditing(true),
\* setEditing(false), with no other operation in between; snap is the
\* state right after the fetch settled
Trip(op, i, post) ==
    IF op = "bind"
    THEN [phase |-> "bound", call |-> Len(calls) + 1, snap |-> InitialState]
    ELSE IF op = "fetchOk" /\ trip.phase = "bound" /\ trip.call = i
    THEN [phase |-> "fetched", call |-> i, snap |-> post]
    ELSE IF op = "setEditing(true)" /\ trip.phase = "fetched"
    THEN [trip EXCEPT !.phase = "begun"]
    ELSE IF op = "setEditing(false)" /\ trip.phase = "begun"
    THEN [trip EXCEPT !.phase = "done"]
    ELSE NoTrip

\* ----- the hook ---------------------------------------------------------
Init ==
    /\ userId \in Ids
    /\ state = InitialState
    /\ calls = <<>>
    /\ promises = <<>>
    /\ notified = <<>>
    /\ mounted = FALSE
    /\ last = [op |-> "render", call |-> 0, prev |-> InitialState, ncalls |-> 0,
               user |-> NullUser, failure |-> NoFailure, error |-> NullError,
               held |-> NullUser]
    /\ trip = NoTrip

\* the body of fetchUser up to its await, for the identity id, the calls
\* made before being awaited as in before
IssueFetch(id, before) ==
    /\ Len(calls) < MaxCalls
    /\ state' = FetchStart(state)
    /\ calls' = Append(calls, GetCall(id))
    /\ promises' = Awaited(before)
    /\ UNCHANGED notified

\* useEffect(() => { fetchUser(); }, [fetchUser]) after the first render
Mount ==
    /\ ~mounted
    /\ mounted' = TRUE
    /\ IssueFetch(userId, promises)
    /\ last' = Last("bind", Len(calls) + 1, NullUser, NoFailure, NullError)
    /\ trip' = Trip("bind", 0, state')
    /\ UNCHANGED userId

\* a render with another userId: fetchUser is rebuilt ([userId]) and the
\* effect runs again
Rebind(id) ==
    /\ mounted
    /\ id # userId
    /\ userId' = id
    /\ IssueFetch(id, [i \in 1..Len(promises) |-> Rebound(promises[i])])
    /\ last' = Last("bind", Len(calls) + 1, NullUser, NoFailure, NullError)
    /\ trip' = Trip("bind", 0, state')
    /\ UNCHANGED mounted

\* result.current.fetchUser()
Refetch ==
    /\ mounted
    /\ IssueFetch(userId, promises)
    /\ last' = Last("refetch", Len(calls) + 1, NullUser, NoFailure, NullError)
    /\ trip' = Trip("refetch", 0, state')
    /\ UNCHANGED <<userId, mounted>>

\* the continuation of fetchUser after a response with ok = true
FetchResolved(i, user) ==
    /\ i \in inflight
    /\ calls[i].method = "GET"
    /\ user \in Answers(i)
    /\ state' = FetchOk(state, user)
    /\ promises' = [promises EXCEPT ![i] = Fulfilled(@)]
    /\ last' = Last("fetchOk", i, user, NoFailure, NullError)
    /\ trip' = Trip("fetchOk", i, state')
    /\ UNCHANGED <<userId, calls, notified, mounted>>

\* the catch block of fetchUser
FetchRejected(i, f) ==
    /\ i \in inflight
    /\ calls[i].method = "GET"
    /\ state' = FetchCatch(state, FetchErrorMessage(f))
    /\ promises' = [promises EXCEPT ![i] = Rejected(@)]
    /\ last' = Last("fetchFail", i, NullUser, f, FetchErrorMessage(f))
    /\ trip' = Trip("fetchFail", i, state')
    /\ UNCHANGED <<userId, calls, notified, mounted>>

\* result.current.updateUser(payload) up to its await
UpdateUser(payload) ==
    /\ mounted
    /\ IF UpdateGuard(state)
       THEN /\ Len(calls) < MaxCalls
            /\ state' = UpdateStart(state)
            /\ calls' = Append(calls, PatchCall(userId, payload))
            /\ promises' = Holding(Awaited(promises), state.user)
            /\ last' = Last("updateUser", Len(calls) + 1, NullUser, NoFailure, NullError)
       ELSE /\ UNCHANGED <<state, calls, promises>>
            /\ last' = Last("updateUser", 0, NullUser, NoFailure, NullError)
    /\ trip' = Trip("updateUser", 0, state')
    /\ UNCHANGED <<userId, notified, mounted>>

\* the continuation of updateUser after a response with ok = true; cb is
\* what onUpdate?.(updatedUser) does.  The setState before it only queues
\* its updater, applied once the continuation is over: the state the hook
\* publishes while onUpdate runs is the one before the step (last.prev)
UpdateResolved(i, updatedUser, cb) ==
    /\ i \in inflight
    /\ calls[i].method = "PATCH"
    /\ updatedUser \in Answers(i)
    /\ state' = UpdateSettled(state, updatedUser, calls[i].body, cb)
    /\ notified' = IF cb = NoOnUpdate THEN notified ELSE Notify(notified, updatedUser)
    /\ promises' = [promises EXCEPT ![i] = Fulfilled(@)]
    /\ last' = Last("updateOk", i, updatedUser, cb,
                     IF cb \in Thrown THEN UpdateErrorMessage(cb) ELSE NullError)
    /\ trip' = Trip("updateOk", i, state')
    /\ UNCHANGED <<userId, calls, mounted>>

\* the catch block of updateUser
UpdateRejected(i, f) ==
    /\ i \in inflight
    /\ calls[i].method = "PATCH"
    /\ state' = UpdateCatch(state, UpdateErrorMessage(f))
    /\ promises' = [promises EXCEPT ![i] = Rejected(@)]
    /\ last' = Last("updateFail", i, NullUser, f, UpdateErrorMessage(f))
    /\ trip' = Trip("updateFail", i, state')
    /\ UNCHANGED <<userId, calls, notified, mounted>>

\* result.current.setEditing(isEditing)
SetEditing(isEditing) ==
    /\ mounted
    /\ state' = SetEditingState(state, isEditing)
    /\ last' = Last(IF isEditing THEN "setEditing(true)" ELSE "setEditing(false)", 0,
                     NullUser, NoFailure, NullError)
    /\ trip' = Trip(IF isEditing THEN "setEditing(true)" ELSE "setEditing(false)", 0, state')
    /\ UNCHANGED <<userId, calls, promises, notified, mounted>>

\* result.current.clearError()
ClearError ==
    /\ mounted
    /\ state' = ClearErrorState(state)
    /\ last' = Last("clearError", 0, NullUser, NoFailure, NullError)
    /\ trip' = Trip("clearError", 0, state')
    /\ UNCHANGED <<userId, calls, promises, notified, mounted>>

Next ==
    \/ Mount
    \/ \E id \in Ids : Rebind(id)
    \/ Refetch
    \/ \E i \in inflight : \E user \in Answers(i) : FetchResolved(i, user)
    \/ \E i \in inflight, f \in Failures : FetchRejected(i, f)
    \/ \E payload \in Payloads : UpdateUser(payload)
    \/ \E i \in inflight : \E user \in Answers(i), cb \in OnUpdates : UpdateResolved(i, user, cb)
    \/ \E i \in inflight, f \in Failures : UpdateRejected(i, f)
    \/ \E isEditing \in BOOLEAN : SetEditing(isEditing)
    \/ ClearError

Spec == Init /\ [][Next]_vars

\* ----- types ------------------------------------------------------------
TypeOK ==
    /\ userId \in Ids
    /\ state.user \in Users \cup {NullUser}
    /\ state.isLoading \in BOOLEAN
    /\ state.isEditing \in BOOLEAN
    /\ Len(calls) <= MaxCalls
    /\ Len(promises) = Len(calls)
    /\ Len(notified) <= Len(calls)

\* ----- helpers of the properties ----------------------------------------
\* the last operation was the arrival of the answer to a GET
FetchArrived == last.op \in {"fetchOk", "fetchFail"}

\* the last operation was the arrival of the answer to a PATCH
UpdateArrived == last.op \in {"updateOk", "updateFail"}

\* the PATCH calls whose continuation has not run yet
UpdatesInFlight == {i \in inflight : calls[i].method = "PATCH"}

\* the hook was never bound to another identity: every call is for userId
NeverRebound == \A i \in 1..Len(calls) : calls[i].id = userId

\* the last two calls are the fetch of one identity and, made while that
\* fetch was pending, the fetch of the identity bound next; every call has
\* been answered, one of these two last
RaceSettled ==
    /\ Len(calls) >= 2
    /\ calls[Len(calls) - 1].method = "GET"
    /\ calls[Len(calls)].method = "GET"
    /\ calls[Len(calls) - 1].id # calls[Len(calls)].id
    /\ promises[Len(calls) - 1].rebound
    /\ inflight = {}
    /\ FetchArrived
    /\ last.call \in {Len(calls) - 1, Len(calls)}

\* ----- properties -------------------------------------------------------
\* C1: when bind(idA) is followed by bind(idB) before idA's fetch resolves,
\* then once both fetches have resolved the state shows idB's result only:
\* if idB's answer arrived last, the state holds idB's entity and no error
\* (or idB's error and no entity of idA); if idA's answer arrived last, it
\* changed neither the entity nor the error.
C1_RebindRaceShowsOnlyLastIdentity ==
    RaceSettled =>
        IF last.call = Len(calls)
        THEN IF last.op = "fetchOk"
             THEN state.user = last.user /\ state.error = NullError
             ELSE state.error = last.error /\ state.user.id # calls[Len(calls) - 1].id
        ELSE state.user = last.prev.user /\ state.error = last.prev.error

\* C2: for a fixed identity, the answer to a fetch that arrives after the
\* answer to a fetch made later changes neither the entity nor the error.
C2_EarlierFetchNeverOverwritesLater ==
    ( /\ FetchArrived
      /\ NeverRebound
      /\ \E j \in 1..Len(calls) :
            j > last.call /\ calls[j].method = "GET" /\ Settled(j) )
        => state.user = last.prev.user /\ state.error = last.prev.error

\* C3: the outcome of an update made for an identity that is no longer the
\* bound one changes nothing of the state.
C3_UpdateOfPreviousIdentityIgnored ==
    ( /\ UpdateArrived
      /\ promises[last.call].rebound
      /\ calls[last.call].id # userId )
        => state = last.prev

\* C4: at most one update request is in flight at any time.
C4_AtMostOneUpdateInFlight == Cardinality(UpdatesInFlight) <= 1

\* C5: updateUser called while no entity is held makes no call of fetch and
\* leaves the whole state as it was.
C5_UpdateWithoutEntityIsNoOp ==
    (last.op = "updateUser" /\ last.prev.user = NullUser)
        => /\ state = last.prev
           /\ Len(calls) = last.ncalls
           /\ last.call = 0

\* C5 happens: updateUser was called after a failed fetch, no entity held
C5_Witness ==
    /\ last.op = "updateUser"
    /\ last.prev.user = NullUser
    /\ last.prev.error # NullError
    /\ Len(calls) < MaxCalls

\* C6: when an update succeeds, editing and loading are false and the
\* entity is exactly the one the remote service returned.
C6_UpdateSuccessReplacesEntity ==
    last.op = "updateOk"
        => /\ ~state.isEditing
           /\ ~state.isLoading
           /\ state.user = last.user

\* C6 happens: an update succeeded while editing, and the entity returned
\* is not the previous entity overlaid with the submitted payload
C6_Witness ==
    /\ last.op = "updateOk"
    /\ last.prev.isEditing
    /\ last.user # [last.prev.user EXCEPT !.firstName = calls[last.call].body.firstName]

\* C7: when an update fails, the entity held before the attempt (when
\* updateUser made the call) is still held unchanged, error is the failure
\* message and loading is false.
C7_UpdateFailureKeepsEntity ==
    last.op = "updateFail"
        => /\ state.user = last.held
           /\ state.user # NullUser
           /\ state.error = last.error
           /\ ~state.isLoading

\* C8: when a fetch fails, the error message is stored, loading is false
\* and the entity is absent.
C8_FetchFailureClearsEntity ==
    last.op = "fetchFail"
        => /\ state.error = last.error
           /\ ~state.isLoading
           /\ state.user = NullUser

\* C9: error and loading are never both set.
C9_ErrorImpliesNotLoading == state.error # NullError => ~state.isLoading

\* C9 happens: an error is published while another request is still pending
C9_Witness == state.error # NullError /\ inflight # {}

\* C10: after a bind and the success of its fetch, setEditing(true)
\* followed by setEditing(false) gives back the state right after the
\* fetch settled, in every field.
C10_RoundTripAfterAnyBind == trip.phase = "done" => state = trip.snap

\* ----- states of the profile controller ---------------------------------
\* Ready: an entity is held, nothing is loading, no error, not editing
Ready(s) == s.user # NullUser /\ ~s.isLoading /\ s.error = NullError /\ ~s.isEditing

\* the empty state: no entity, nothing loading, no error, not editing
Empty(s) == s.user = NullUser /\ ~s.isLoading /\ s.error = NullError /\ ~s.isEditing

\* the last operation was clearError, called while an error was published
Dismissed == last.op = "clearError" /\ last.prev.error # NullError

\* the last operation was setEditing
EditingSet == last.op \in {"setEditing(true)", "setEditing(false)"}

\* C11 as stated: clearError from a state with an error leads to Ready when
\* an entity is held and to the empty state when none is held.
C11_DismissLeadsToReadyOrEmpty ==
    Dismissed => IF state.user # NullUser THEN Ready(state) ELSE Empty(state)

\* C11 amended: clearError from a state with an error clears the error and
\* leaves entity, loading (false) and editing as they were; so it leads to
\* Ready or to the empty state when editing was false, and a state that is
\* Ready holds an entity.
C11_DismissClearsErrorOnly ==
    Dismissed =>
        /\ state = [last.prev EXCEPT !.error = NullError]
        /\ ~state.isLoading
        /\ ~last.prev.isEditing =>
              IF last.prev.user # NullUser THEN Ready(state) ELSE Empty(state)
        /\ Ready(state) => state.user \in Users

\* C11 happens: the error of a failed fetch is dismissed with no entity held
C11_Witness ==
    /\ Dismissed
    /\ last.prev.user = NullUser
    /\ ~last.prev.isEditing
    /\ Empty(state)

\* C18: setEditing makes no call of fetch and changes the editing flag
\* only, in whatever state it is called.
C18_SetEditingChangesOnlyEditing ==
    EditingSet =>
        /\ state = [last.prev EXCEPT !.isEditing = (last.op = "setEditing(true)")]
        /\ Len(calls) = last.ncalls
        /\ last.call = 0

\* C18 happens: setEditing(true) was called while an error was published
\* and a request was pending
C18_Witness ==
    /\ last.op = "setEditing(true)"
    /\ last.prev.error # NullError
    /\ inflight # {}

\* C19: editing is true only while an entity is held.
C19_EditingOnlyWithEntity == state.isEditing => state.user # NullUser

\* C20: an update failure changes error and loading only; the editing flag
\* stays as it was when the failure arrived.
C20_UpdateFailureKeepsEditing ==
    last.op = "updateFail"
        => state = [last.prev EXCEPT !.error = last.error, !.isLoading = FALSE]

\* C20 happens: an update failed while editing
C20_Witness ==
    /\ last.op = "updateFail"
    /\ last.prev.isEditing
    /\ state.isEditing

\* ----- error messages of the claims --------------------------------------
\* the operation whose failure arrived last
FailedOperation == IF last.op = "fetchFail" THEN "fetch" ELSE "update"

\* "Failed to {op} user"
GenericMessage(op) == "Failed to " \o op \o " user"

\* the last operation was the arrival of a failure
FailureArrived == last.op \in {"fetchFail", "updateFail"}

\* C12 as stated: the published error is "Failed to {op} user: {statusText}"
\* for a non-success response, the message of the error the call was
\* rejected with when it carries one, and "Failed to {op} user" when the
\* failure carries no message.
C12_MessageOrGenericFallback ==
    FailureArrived =>
        /\ last.failure.kind = "status" =>
              state.error = GenericMessage(FailedOperation) \o ": " \o last.failure.text
        /\ (last.failure.kind = "error" /\ last.failure.text # "") =>
              state.error = last.failure.text
        /\ (last.failure.kind # "status" /\ last.failure.text = "") =>
              state.error = GenericMessage(FailedOperation)

\* C12 amended: "Failed to {op} user: {statusText}" for a non-success
\* response, the message of the Error the call was rejected with, empty or
\* not, and "Failed to {op} user" when the call was rejected with a value
\* that is not an Error, whatever message that value carries.
C12_MessageOfErrorInstance ==
    FailureArrived =>
        /\ last.failure.kind = "status" =>
              state.error = GenericMessage(FailedOperation) \o ": " \o last.failure.text
        /\ last.failure.kind = "error" => state.error = last.failure.text
        /\ last.failure.kind = "other" => state.error = GenericMessage(FailedOperation)

\* C12 happens: a fetch was rejected with a value that is not an Error and
\* that carries a message
C12_Witness ==
    /\ last.op = "fetchFail"
    /\ last.failure.kind = "other"
    /\ last.failure.text # ""
    /\ state.error = "Failed to fetch user"

\* ----- notifications ------------------------------------------------------
\* the PATCH calls answered with ok = true
UpdatesSucceeded == {i \in 1..Len(calls) : calls[i].method = "PATCH" /\ promises[i].ev = "ok"}

\* C13: onUpdate, when given, is called once for each update that succeeds
\* and never more often, with the entity returned by the remote service,
\* and only when the state published is that entity with editing cleared:
\* never before the state is committed.
C13_NotifiedOncePerSuccessfulUpdate ==
    /\ Len(notified) <= Cardinality(UpdatesSucceeded)
    /\ (last.op = "updateOk" /\ last.failure # NoOnUpdate) =>
          /\ Len(notified) >= 1
          /\ notified[Len(notified)] = last.user
          /\ last.prev.user = last.user
          /\ ~last.prev.isEditing

\* ----- fetches ------------------------------------------------------------
\* call i was made by fetchUser called again for the bound identity: every
\* call is made for the bound identity, and a render with another userId
\* makes a call at once
IsRefetch(i) == i > 1 /\ calls[i].method = "GET" /\ calls[i].id = calls[i - 1].id

\* call i was made by the effect after a render with another userId
IsRebind(i) == i > 1 /\ calls[i].method = "GET" /\ calls[i].id # calls[i - 1].id

\* the last operation made call last.call, a GET for the bound identity,
\* which is pending, with loading set and the error cleared
FetchIssued ==
    /\ Len(calls) = last.ncalls + 1
    /\ last.call = Len(calls)
    /\ calls[last.call].method = "GET"
    /\ calls[last.call].id = userId
    /\ last.call \in inflight
    /\ state.isLoading
    /\ state.error = NullError

\* C14: fetchUser can be called in any state; it makes a GET for the bound
\* identity, sets loading and clears the error, and when that GET succeeds
\* the entity is the fetched one.
C14_RefetchInAnyState ==
    /\ (mounted /\ Len(calls) < MaxCalls) => ENABLED Refetch
    /\ last.op = "refetch" => FetchIssued
    /\ (last.op = "fetchOk" /\ IsRefetch(last.call)) => state.user = last.user

\* C14 happens: fetchUser was called again from Ready
C14_Witness ==
    /\ last.op = "refetch"
    /\ Ready(last.prev)
    /\ state.user \in Users

\* C15: every bind makes exactly one GET for the identity bound and sets
\* loading with no error; when the GET of a rebind succeeds while that
\* identity is bound, the entity is the one of that identity.
C15_BindFetchesBoundIdentity ==
    /\ last.op = "bind" => FetchIssued
    /\ (last.op = "fetchOk" /\ IsRebind(last.call) /\ calls[last.call].id = userId)
          => state.user = last.user /\ state.user.id = userId

\* C15 happens: the fetch of a rebind succeeded while the entity of the
\* identity bound before was held
C15_Witness ==
    /\ last.op = "fetchOk"
    /\ IsRebind(last.call)
    /\ last.prev.user.id = calls[last.call - 1].id
    /\ state.user.id = userId

\* ----- recovery -----------------------------------------------------------
\* a fetch or an update has failed
HasFailed == \E i \in 1..Len(promises) : promises[i].ev = "fail"

\* the last operation was the success of a fetch made after a failure, with
\* no other call pending from the moment it was made
Recovered ==
    /\ last.op = "fetchOk"
    /\ promises[last.call].alone
    /\ \E j \in 1..(last.call - 1) : promises[j].ev = "fail"

\* C16: after a failure, clearError, fetchUser and a bind remain possible,
\* and a fetch made afterwards that succeeds with nothing else in flight
\* gives the fetched entity, no error and loading false.
C16_FailureIsRecoverable ==
    /\ HasFailed =>
          /\ ENABLED ClearError
          /\ Len(calls) < MaxCalls =>
                /\ ENABLED Refetch
                /\ \A id \in Ids \ {userId} : ENABLED Rebind(id)
    /\ Recovered =>
          /\ state.user = last.user
          /\ state.user \in Users
          /\ state.error = NullError
          /\ ~state.isLoading

\* C16 happens: a fetch failed with no entity held, and a later fetch
\* succeeded
C16_Witness ==
    /\ Recovered
    /\ last.prev.user = NullUser
    /\ state.user \in Users

\* C21: whenever a call of fetch (GET or PATCH) is pending, loading is
\* true: the answer to one of several overlapping calls never sets loading
\* to false while another call is still pending.
C21_InFlightImpliesLoading == inflight # {} => state.isLoading

\* C22: a PATCH is only sent for the identity of the entity held: when
\* updateUser makes its call, the id in the URL of the call is the id of
\* the entity held at that moment.
C22_UpdateSentForHeldIdentity ==
    (last.op = "updateUser" /\ last.call # 0)
        => calls[last.call].id = last.prev.user.id

\* ----- liveness -----------------------------------------------------------
\* number of calls of the global fetch in a run of SpecLive
LiveCalls == 2

\* the continuation of call i runs
Answer(i) ==
    \/ \E user \in Users : FetchResolved(i, user)
    \/ \E f \in Failures : FetchRejected(i, f)
    \/ \E user \in Users, cb \in OnUpdates : UpdateResolved(i, user, cb)
    \/ \E f \in Failures : UpdateRejected(i, f)

\* the operations of the hook, with at most LiveCalls calls of fetch
NextLive ==
    \/ Mount /\ Len(calls') <= LiveCalls
    \/ \E id \in Ids : Rebind(id) /\ Len(calls') <= LiveCalls
    \/ Refetch /\ Len(calls') <= LiveCalls
    \/ \E payload \in Payloads : UpdateUser(payload) /\ Len(calls') <= LiveCalls
    \/ \E i \in 1..LiveCalls : Answer(i)
    \/ \E isEditing \in BOOLEAN : SetEditing(isEditing)
    \/ ClearError

\* the effect runs after the first render and the remote service answers
\* every request
SpecLive ==
    /\ Init
    /\ [][NextLive]_vars
    /\ WF_vars(Mount)
    /\ \A i \in 1..LiveCalls : WF_vars(Answer(i))

\* every call has been answered, loading is false and an entity or an
\* error is stored
SettledState ==
    /\ mounted
    /\ inflight = {}
    /\ ~state.isLoading
    /\ state.user # NullUser \/ state.error # NullError

\* C17: loading is false whenever every call made has been answered, and
\* pending calls lead to a state with loading false and an entity or an
\* error stored.
C17_EventuallySettled ==
    /\ []((mounted /\ inflight = {}) => ~state.isLoading)
    /\ (inflight # {}) ~> SettledState

\* C17 happens: every call was answered, the last one with a failure
C17_Witness ==
    /\ SettledState
    /\ Len(calls) = LiveCalls
    /\ last.op = "fetchFail"

====
